---- MODULE Spec2Model ----
(***************************************************************************)
(* The alignment stage of phylomizer (source/module_alignments.py): the    *)
(* function alignment() and the step functions it calls, as a state        *)
(* machine over the output directory, the "replace" flag and the position  *)
(* of the run, together with the validator checkAlignment and the          *)
(* rare-residue codec computed on concrete (small) sequence collections.   *)
(*                                                                         *)
(* A residue string is a sequence of one-character strings, a record is    *)
(* [id, seq], a collection is a sequence of records and a file is          *)
(* [fmt, recs].  A file without any record stands for a file of size zero. *)
(***************************************************************************)
EXTENDS Naturals, Sequences, FiniteSets, TLC

VARIABLES
  cfg,          \* the run configuration (parameters), fixed by Init
  fs,           \* the file system: path -> file, for the paths that exist
  pc,           \* position of the current run inside alignment()
  replace,      \* parameters["replace"]
  replace0,     \* value of parameters["replace"] when the current run started
  pi,           \* index of prog in the loop over parameters["alignment"]
  di,           \* index of direc in the loop over directions
  out_file,     \* the local variable out_file of alignment()
  generated_alignments,
  in_file_param,\* parameters["in_file"]
  exit_code,    \* status of sys.exit, 0 while none
  log,          \* the calls of step functions made by the current run
  run,          \* number of the current run
  faults,       \* tool failures, corrupted tool outputs and removals so far
  prev,         \* how the previous run ended and what happened since
  cwd,          \* working directory of the process
  va, vb, vres, vop, \* the validator on its own: two files, result, last operation
  children,     \* the child processes that have been started and not waited for
  started       \* the step functions called so far, with what became of each

vars == << cfg, fs, pc, replace, replace0, pi, di, out_file,
           generated_alignments, in_file_param, exit_code, log, run, faults,
           prev, cwd, va, vb, vres, vop, children, started >>

pipevars == << cfg, fs, pc, replace, replace0, pi, di, out_file,
               generated_alignments, in_file_param, exit_code, log, run,
               faults, prev, cwd >>

procvars == << children, started >>

harnessvars == << va, vb, vres, vop, children, started >>

-----------------------------------------------------------------------------
(* Bounds of the model.                                                    *)

MaxRuns == 2        \* runs of alignment() on the same output directory
MaxFaults == 1      \* tool failures + corrupted outputs + removed artifacts
MaxGaps == 1        \* gap characters inserted into the second file
MaxRecs == 2        \* records of a file handed to the validator on its own
MaxLen == 3         \* residues of a string handed to the codec on its own
MaxSteps == 3       \* step functions called one after the other on their own

-----------------------------------------------------------------------------
(* Characters.                                                             *)

UpperLetters == {"A", "C", "U", "B"}
LowerLetters == {"a", "u"}
Gap == "-"
Chars == UpperLetters \cup LowerLetters \cup {Gap}

\* re.sub(r'[^a-zA-Z]', '', s) keeps exactly these
isAlpha(c) == c \in UpperLetters \cup LowerLetters

\* str.upper() on one character
upper(c) == IF c = "a" THEN "A" ELSE IF c = "u" THEN "U" ELSE c

Range(s) == {s[i] : i \in 1..Len(s)}

\* str.upper()
upperSeq(s) == [i \in 1..Len(s) |-> upper(s[i])]

Reverse(s) == [i \in 1..Len(s) |-> s[Len(s) + 1 - i]]

\* str.replace(a, b) for one-character a and b
strReplace(s, a, b) == [i \in 1..Len(s) |-> IF s[i] = a THEN b ELSE s[i]]

\* str.count(a) for a one-character a
strCount(s, a) == Cardinality({i \in 1..Len(s) : s[i] = a})

Rec(i, s) == [id |-> i, seq |-> s]
Fasta(recs) == [fmt |-> "fasta", recs |-> recs]
EmptyFile == [fmt |-> "fasta", recs |-> << >>]

\* os.path.getsize: a file holds bytes exactly when it holds a record
getsize(f) == Len(f.recs)

\* SeqIO.parse(file, "fasta"): a file in another format has no '>' line and
\* yields no record
SeqIO_parse(f) == IF f.fmt = "fasta" THEN f.recs ELSE << >>

-----------------------------------------------------------------------------
(* lookForFile on an explicit file system.                                 *)

lookForFileBug(files, p) == p \in DOMAIN files

lookForFile(files, p) == p \in DOMAIN files /\ getsize(files[p]) > 0

-----------------------------------------------------------------------------
(* checkAlignment, computed as the code computes it: two reading loops     *)
(* that stop at a repeated identifier, the symmetric difference of the     *)
(* key sets, then the comparison per identifier.                           *)

\* re.sub(r'[^a-zA-Z]', '', str(record.seq).upper())
cleanSeqKeepCase(s) == SelectSeq(s, isAlpha)

cleanSeq(s) == upperSeq(SelectSeq(s, isAlpha))

\* The reading loop: [ok, d] with d the dictionary id -> cleaned residues
RECURSIVE readSeqs(_, _, _)
readSeqs(recs, i, d) ==
  IF i > Len(recs) THEN [ok |-> TRUE, d |-> d]
  ELSE IF recs[i].id \in DOMAIN d THEN [ok |-> FALSE, d |-> d]
  ELSE readSeqs(recs, i + 1,
         [k \in DOMAIN d \cup {recs[i].id} |->
            IF k \in DOMAIN d THEN d[k] ELSE cleanSeq(recs[i].seq)])

EmptyDict == [k \in {} |-> << >>]

SymDiff(S, T) == (S \ T) \cup (T \ S)

checkAlignmentNoResidues(files, ifile_1, ifile_2) ==
  IF ~lookForFile(files, ifile_1) \/ ~lookForFile(files, ifile_2) THEN FALSE
  ELSE LET r1 == readSeqs(SeqIO_parse(files[ifile_1]), 1, EmptyDict)
           r2 == readSeqs(SeqIO_parse(files[ifile_2]), 1, EmptyDict)
       IN  r1.ok /\ r2.ok /\ SymDiff(DOMAIN r1.d, DOMAIN r2.d) = {}

checkAlignment(files, ifile_1, ifile_2) ==
  IF ~lookForFile(files, ifile_1) \/ ~lookForFile(files, ifile_2) THEN FALSE
  ELSE LET r1 == readSeqs(SeqIO_parse(files[ifile_1]), 1, EmptyDict)
       IN  IF ~r1.ok THEN FALSE
           ELSE LET r2 == readSeqs(SeqIO_parse(files[ifile_2]), 1, EmptyDict)
                IN  IF ~r2.ok THEN FALSE
                    ELSE IF SymDiff(DOMAIN r1.d, DOMAIN r2.d) # {} THEN FALSE
                    ELSE \A k \in DOMAIN r1.d : r1.d[k] = r2.d[k]

-----------------------------------------------------------------------------
(* check_count_sequences: number of records and presence of U / O.  The    *)
(* model's alphabet holds U only, so pyrrolys is always FALSE.             *)

check_count_sequences(f) ==
  LET recs == SeqIO_parse(f)
  IN  [numSeqs |-> Len(recs),
       selenocys |-> \E i \in 1..Len(recs) :
                        strCount(upperSeq(recs[i].seq), "U") # 0,
       pyrrolys |-> \E i \in 1..Len(recs) :
                        strCount(upperSeq(recs[i].seq), "O") # 0]

-----------------------------------------------------------------------------
(* replaceRareAminoAcids on one residue string.  combinations is the       *)
(* sequence of <<code, replacement>> pairs of parameters["in_letter"];     *)
(* back swaps every pair.  subs.setdefault keeps the first destination of  *)
(* a repeated source.  The letters are visited in the order of the table   *)
(* (the code visits them in the order of the dictionary); for the tables   *)
(* of this model every order gives the same strings.                       *)

subsPairs(combinations, back) ==
  LET p == [i \in 1..Len(combinations) |->
              IF back THEN << combinations[i][2], combinations[i][1] >>
              ELSE combinations[i]]
  IN  SelectSeq([i \in 1..Len(p) |->
                   IF \E j \in 1..(i - 1) : p[j][1] = p[i][1]
                   THEN << >> ELSE p[i]],
                LAMBDA e : e # << >>)

\* the inner loop over the letters of subs for one record: the rewritten
\* string and what is added to stats, per letter
RECURSIVE substituteSeq(_, _, _, _)
substituteSeq(seq, subs, i, added) ==
  IF i > Len(subs) THEN [seq |-> seq, added |-> added]
  ELSE LET s2 == strReplace(seq, subs[i][1], subs[i][2])
       IN  substituteSeq(s2, subs, i + 1,
                         Append(added, strCount(s2, subs[i][2])))

substituteRecs(recs, combinations, back) ==
  [i \in 1..Len(recs) |->
     Rec(recs[i].id,
         substituteSeq(recs[i].seq, subsPairs(combinations, back), 1,
                       << >>).seq)]

-----------------------------------------------------------------------------
(* The external tools.  Each is a black box behind a command line: what a  *)
(* correct tool writes is given here, what a tool may write instead is     *)
(* given by Corruptions.                                                   *)

Max(S) == CHOOSE m \in S : \A x \in S : x <= m

Pad(s, n) == s \o [i \in 1..(n - Len(s)) |-> Gap]

\* readAl -reverse: every residue string in reverse order
toolReverse(f) ==
  [fmt |-> f.fmt,
   recs |-> [i \in 1..Len(f.recs) |-> Rec(f.recs[i].id, Reverse(f.recs[i].seq))]]

\* an aligner: gaps are introduced until all rows have one length
toolAlign(f) ==
  LET n == Max({0} \cup {Len(f.recs[i].seq) : i \in 1..Len(f.recs)})
  IN  Fasta([i \in 1..Len(f.recs) |-> Rec(f.recs[i].id, Pad(f.recs[i].seq, n))])

\* readAl -phylip
toolPhylip(f) == [fmt |-> "phylip", recs |-> f.recs]

\* trimAl: the columns holding a gap are removed; with -backtrans every
\* residue becomes a codon
toolTrim(f, cds) ==
  LET keep(s) == SelectSeq(s, LAMBDA c : c # Gap)
      codon(s) == [i \in 1..(3 * Len(s)) |-> s[((i - 1) \div 3) + 1]]
  IN  [fmt |-> f.fmt,
       recs |-> [i \in 1..Len(f.recs) |->
                   Rec(f.recs[i].id,
                       IF cds THEN codon(keep(f.recs[i].seq))
                       ELSE keep(f.recs[i].seq))]]

otherLetter(c) == IF upper(c) = "A" THEN "C" ELSE "A"

\* one residue of the first record changed
mutateFirst(f) ==
  [fmt |-> f.fmt,
   recs |-> [i \in 1..Len(f.recs) |->
               IF i = 1 /\ Len(f.recs[1].seq) > 0
               THEN Rec(f.recs[1].id,
                        << otherLetter(f.recs[1].seq[1]) >>
                          \o Tail(f.recs[1].seq))
               ELSE f.recs[i]]]

\* the last record missing
dropLast(f) == [fmt |-> f.fmt, recs |-> SubSeq(f.recs, 1, Len(f.recs) - 1)]

\* what a tool that ends with status zero may have written instead of f
Corruptions(f) ==
  IF Len(f.recs) < 2 THEN {}
  ELSE {mutateFirst(f)}

\* what a tool that ends with a non-zero status may leave at its destination
Leftovers(f) == {EmptyFile} \cup (IF Len(f.recs) < 2 THEN {} ELSE {dropLast(f)})

Put(files, p, f) ==
  [q \in DOMAIN files \cup {p} |-> IF q = p THEN f ELSE files[q]]

\* The outcomes of one child process (sp.Popen + proc.wait) that is to write
\* `good` at out: zero status with the destination written (as it should be
\* or, while the fault budget lasts, corrupted), or non-zero status with a
\* leftover.  A tool whose input is missing or empty ends with non-zero
\* status.  Each outcome is [fs, status, fault].
childProcess(files, inputs, out, good, budget) ==
  IF \E p \in inputs : ~lookForFile(files, p)
  THEN {[fs |-> files, status |-> 1, fault |-> 0]}
  ELSE {[fs |-> Put(files, out, good), status |-> 0, fault |-> 0]}
       \cup
       (IF budget = 0 THEN {}
        ELSE {[fs |-> Put(files, out, c), status |-> 0, fault |-> 1] :
                c \in Corruptions(good)}
             \cup
             {[fs |-> Put(files, out, l), status |-> 1, fault |-> 1] :
                l \in Leftovers(good)})

-----------------------------------------------------------------------------
(* Tables of module_alignments.py.                                         *)

min_seqs_analysis == 3

\* the table with the extension of muscle given to mafft as well
file_extensionShared ==
  [prank |-> "prk", mafft |-> "msl", kalign |-> "kal", muscle |-> "msl",
   clustalw |-> "clw", t_coffee |-> "tce", dialign_tx |-> "dtx",
   clustal_omega |-> "clo"]

file_extension ==
  [prank |-> "prk", mafft |-> "mft", kalign |-> "kal", muscle |-> "msl",
   clustalw |-> "clw", t_coffee |-> "tce", dialign_tx |-> "dtx",
   clustal_omega |-> "clo"]

exit_codesShared ==
  [trimal |-> 81, readal |-> 81, prank |-> 92, mafft |-> 87, kalign |-> 89,
   muscle |-> 86, t_coffee |-> 90, m_coffee |-> 90, dialign_tx |-> 88,
   clustalw |-> 91, clustal_omega |-> 92, generic |-> 95]

exit_codes ==
  [trimal |-> 82, readal |-> 81, prank |-> 92, mafft |-> 87, kalign |-> 89,
   muscle |-> 86, t_coffee |-> 90, m_coffee |-> 90, dialign_tx |-> 88,
   clustalw |-> 91, clustal_omega |-> 92, generic |-> 95]

\* the labels perfomAlignment builds a command line for
SupportedLabels ==
  {"muscle", "kalign", "clustalw", "clustal_omega", "mafft", "prank",
   "dialign_tx", "t_coffee", "m_coffee"}

\* altern_ext = prog[:2] + prog[-1], for the names the model uses
altern_ext(prog) == IF prog = "m_coffee" THEN "m_e" ELSE "foo"

extension(prog) ==
  IF prog \in DOMAIN file_extension THEN file_extension[prog]
  ELSE altern_ext(prog)

-----------------------------------------------------------------------------
(* Paths.  oFile is out_directory/prefix.                                  *)

InPath == "in.fasta"
oFile == "o"

\* os.getcwd() when alignment() is entered, and parameters["out_directory"]
current_directory == "start"
out_directory == "out"
CdsPath == "in.cds"

FileAt(files, p) == IF p \in DOMAIN files THEN files[p] ELSE EmptyFile

-----------------------------------------------------------------------------
(* The step functions.  Each returns the set of its possible outcomes      *)
(* [fs, ret, exit, fault]: the file system afterwards, the value returned, *)
(* the status of sys.exit (0 when the function returned) and whether a     *)
(* tool misbehaved.                                                        *)

Skipped(files) ==
  [fs |-> files, ret |-> FALSE, exit |-> 0, fault |-> 0, procs |-> 0,
   checked |-> FALSE]

Returned(files, fault, procs, checked) ==
  [fs |-> files, ret |-> TRUE, exit |-> 0, fault |-> fault, procs |-> procs,
   checked |-> checked]

Exited(files, status, fault, procs, checked) ==
  [fs |-> files, ret |-> FALSE, exit |-> status, fault |-> fault,
   procs |-> procs, checked |-> checked]

\* "if lookForFile(out_file) and not replace: return False"
alreadyGeneratedNegated(files, out, repl) == ~lookForFile(files, out) /\ ~repl

alreadyGenerated(files, out, repl) == lookForFile(files, out) /\ ~repl

reverseSequences(files, in_file, out, repl, budget) ==
  IF alreadyGenerated(files, out, repl) THEN {Skipped(files)}
  ELSE {IF r.status # 0
        THEN Exited(r.fs, exit_codes["readal"], r.fault, 1, FALSE)
        ELSE Returned(r.fs, r.fault, 1, FALSE) :
          r \in childProcess(files, {in_file}, out,
                             toolReverse(FileAt(files, in_file)), budget)}

\* an input that cannot be opened is an uncaught IOError, raised after the
\* destination has been opened for writing
replaceRareAminoAcids(files, in_file, out, repl, combinations, back) ==
  IF alreadyGenerated(files, out, repl) THEN {Skipped(files)}
  ELSE IF in_file \notin DOMAIN files
       THEN {Exited(Put(files, out, EmptyFile), 1, 0, 0, FALSE)}
       ELSE {Returned(Put(files, out,
                          Fasta(substituteRecs(SeqIO_parse(files[in_file]),
                                               combinations, back))),
                      0, 0, FALSE)}

\* lines 589-599: what perfomAlignment does once the child has ended with
\* status zero
validateUnchecked(files, label, in_file, out, fault) ==
  Returned(files, fault, 1, FALSE)

validate(files, label, in_file, out, fault) ==
  IF ~checkAlignment(files, in_file, out)
  THEN Exited(files, exit_codes[label], fault, 1, TRUE)
  ELSE Returned(files, fault, 1, TRUE)

\* aln: the files named in the parameters string (-aln ...), read by the tool
perfomAlignment(files, label, aln, in_file, out, repl, budget) ==
  IF alreadyGenerated(files, out, repl) THEN {Skipped(files)}
  ELSE IF label \notin SupportedLabels
       THEN {Exited(files, exit_codes["generic"], 0, 0, FALSE)}
       ELSE {IF r.status # 0
             THEN Exited(r.fs, exit_codes[label], r.fault, 1, FALSE)
             ELSE validate(r.fs, label, in_file, out, r.fault) :
               r \in childProcess(files, {in_file} \cup aln, out,
                                  toolAlign(FileAt(files, in_file)), budget)}

\* in_file, compare_msa, force_refer_msa: "" stands for None
trimmingAlignment(files, label, out, repl, in_file, compare_msa, force_refer_msa, cds, budget) ==
  IF alreadyGenerated(files, out, repl) THEN {Skipped(files)}
  ELSE LET ref == IF in_file # "" THEN in_file ELSE force_refer_msa
           inputs == {in_file, compare_msa, force_refer_msa} \ {""}
       IN  {IF r.status # 0
            THEN Exited(r.fs, exit_codes[label], r.fault, 1, FALSE)
            ELSE Returned(r.fs, r.fault, 1, FALSE) :
              r \in childProcess(files, inputs, out,
                                 toolTrim(FileAt(files, ref), cds), budget)}

convertInputFile_Format(files, label, in_file, out, repl, budget) ==
  IF alreadyGenerated(files, out, repl) THEN {Skipped(files)}
  ELSE {IF r.status # 0
        THEN Exited(r.fs, exit_codes[label], r.fault, 1, FALSE)
        ELSE Returned(r.fs, r.fault, 1, FALSE) :
          r \in childProcess(files, {in_file}, out,
                             toolPhylip(FileAt(files, in_file)), budget)}

-----------------------------------------------------------------------------
(* Configurations and inputs.                                              *)

PlainInput ==
  << Rec("s1", <<"A", "C">>), Rec("s2", <<"C">>), Rec("s3", <<"C", "A", "A">>) >>

\* a selenocysteine, and no residue equal to its placeholder
RareInput ==
  << Rec("s1", <<"A", "U">>), Rec("s2", <<"C">>), Rec("s3", <<"C", "A", "A">>) >>

\* a selenocysteine next to a residue that equals its placeholder
ClashInput ==
  << Rec("s1", <<"U", "B">>), Rec("s2", <<"C">>), Rec("s3", <<"C", "A", "A">>) >>

\* a selenocysteine in lower case
LowerInput ==
  << Rec("s1", <<"u", "A">>), Rec("s2", <<"C">>), Rec("s3", <<"C", "A", "A">>) >>

\* fewer sequences than min_seqs_analysis
FewInput == << Rec("s1", <<"A", "C">>), Rec("s2", <<"C">>) >>

Inputs == {PlainInput, RareInput, ClashInput, LowerInput, FewInput}

BackTranslation == {"prot2codon", "prot2nuc"}

\* trimming / residue_datatype / cds as they may be configured together
Modes ==
  { [trimming |-> FALSE, residue_datatype |-> "", cds |-> FALSE],
    [trimming |-> TRUE, residue_datatype |-> "", cds |-> FALSE],
    [trimming |-> TRUE, residue_datatype |-> "prot2codon", cds |-> TRUE] }

\* pop: which element set.pop() hands out, a property of the interpreter and
\* of the path strings, the same in every run of one configuration.
\* missing: the keys a configuration file normally sets that parameters
\* does not hold ("alignment", "readal", "residue_datatype", the name of a
\* program); cds: "cds" in parameters.
Config(i, b, a, c, m) ==
  [input |-> i, both_direction |-> b, alignment |-> a, consensus |-> c,
   trimming |-> m.trimming, residue_datatype |-> m.residue_datatype,
   cds |-> m.cds, in_letter |-> << <<"U", "B">>, <<"O", "Z">> >>,
   min_seqs |-> 0,
   pop |-> 1, missing |-> {}]

NoTrimming == [trimming |-> FALSE, residue_datatype |-> "", cds |-> FALSE]

\* configurations the option checks of lines 101-139 refuse: a key that is
\* missing, a CDS file without a back-translation datatype, a
\* back-translation datatype without a CDS file
BrokenConfigs ==
  { [Config(PlainInput, b, <<"muscle">>, TRUE, NoTrimming)
       EXCEPT !.missing = {k}] :
      b \in BOOLEAN, k \in {"alignment", "muscle", "readal", "residue_datatype"} }
  \cup
  { Config(PlainInput, b, <<"muscle">>, TRUE, m) :
      b \in BOOLEAN,
      m \in { [trimming |-> TRUE, residue_datatype |-> "", cds |-> TRUE],
              [trimming |-> TRUE, residue_datatype |-> "prot2codon",
               cds |-> FALSE] } }

\* The plain input with every combination of direction, one or two
\* supported aligners, consensus and trimming mode; the rare input with one
\* aligner and every direction and trimming mode; the other inputs and the
\* unsupported aligner without trimming; two configurations with min_seqs
\* set, one at the record count of its input and one above it; one with
\* the two aligners whose entries of exit_codes are the same; one that
\* names an aligner twice.  Without a consensus tool and with both
\* directions, set.pop() hands out each of the alignments in turn.
Configs ==
  { Config(PlainInput, b, a, c, m) :
      b \in BOOLEAN, a \in { <<"muscle">>, <<"muscle", "mafft">> },
      c \in BOOLEAN, m \in Modes }
  \cup
  { [Config(PlainInput, b, <<"muscle", "mafft">>, FALSE, m) EXCEPT !.pop = 2] :
      b \in BOOLEAN, m \in Modes }
  \cup
  { [Config(PlainInput, TRUE, <<"muscle", "mafft">>, FALSE, NoTrimming)
       EXCEPT !.pop = k] : k \in {3, 4} }
  \cup
  { [Config(PlainInput, TRUE, <<"muscle">>, FALSE, NoTrimming)
       EXCEPT !.pop = 2] }
  \cup
  { Config(RareInput, b, <<"muscle">>, TRUE, m) : b \in BOOLEAN, m \in Modes }
  \cup
  { Config(i, b, <<"muscle">>, TRUE, NoTrimming) :
      i \in {ClashInput, LowerInput, FewInput}, b \in BOOLEAN }
  \cup
  { Config(PlainInput, b, <<"muscle", "foo">>, TRUE, NoTrimming) :
      b \in BOOLEAN }
  \cup
  { [Config(FewInput, FALSE, <<"muscle">>, TRUE, NoTrimming)
       EXCEPT !.min_seqs = 2],
    [Config(PlainInput, FALSE, <<"muscle">>, TRUE, NoTrimming)
       EXCEPT !.min_seqs = 4] }
  \cup
  { Config(PlainInput, FALSE, <<"prank", "clustal_omega">>, FALSE,
           NoTrimming) }
  \cup
  { Config(PlainInput, FALSE, <<"muscle", "muscle">>, FALSE, NoTrimming) }
  \cup BrokenConfigs

-----------------------------------------------------------------------------
(* State functions of a run of alignment().                                *)

inspected == check_count_sequences(FileAt(fs, InPath))
rare == inspected.selenocys \/ inspected.pyrrolys

min_seqs == IF cfg.min_seqs = 0 THEN min_seqs_analysis ELSE cfg.min_seqs

directions ==
  IF cfg.both_direction THEN <<"forward", "reverse">> ELSE <<"forward">>

prog == cfg.alignment[pi]
direc == directions[di]

seqsReverse == oFile \o ".seqs.reverse"
seqsNoRare == oFile \o ".seqs.no_rare_aa"
seqsNoRareReverse == oFile \o ".seqs.no_rare_aa.reverse"

alignIn(d) ==
  IF d = "forward" THEN (IF rare THEN seqsNoRare ELSE InPath)
  ELSE (IF rare THEN seqsNoRareReverse ELSE seqsReverse)

alignOut(d, ext) ==
  oFile \o ".alg." \o (IF rare THEN "no_rare_aa." ELSE "") \o d \o "." \o ext

alt_file(d, ext) == oFile \o ".alg." \o d \o "." \o ext
reverseIn(ext) == oFile \o ".alg.reverse." \o ext
reverseOut(ext) == oFile \o ".alg.reverse.forw." \o ext
metalig == oFile \o ".alg.metalig"
clean_file == oFile \o ".alg.clean"
path_file == oFile \o ".alg.paths"

budget == MaxFaults - faults

SetToSeq(S) ==
  CHOOSE s \in [1..Cardinality(S) -> S] : \A x \in S : \E i \in DOMAIN s : s[i] = x

\* generated_alignments.pop()
pop(S) == SetToSeq(S)[((cfg.pop - 1) % Cardinality(S)) + 1]

\* print >> open(path_file, "w"), "\n".join(generated_alignments)
pathsFile(S) ==
  [fmt |-> "paths", recs |-> [i \in 1..Cardinality(S) |-> Rec(SetToSeq(S)[i], << >>)]]

\* one call of a step function, as the log keeps it; aln, compare and refer
\* are the files named on the command line besides inf, where there are any
Event(fn, label, inf, outf, r) ==
  [fn |-> fn, label |-> label, inf |-> inf, out |-> outf,
   isfile |-> outf \in DOMAIN fs, size |-> getsize(FileAt(fs, outf)),
   repl |-> replace, ret |-> r.ret, exit |-> r.exit, procs |-> r.procs,
   checked |-> r.checked, aln |-> {}, compare |-> "", refer |-> ""]

\* "if step(...): parameters["replace"] = True"
PromoteToFalse(repl, ret) == IF ret THEN FALSE ELSE repl

Promote(repl, ret) == IF ret THEN TRUE ELSE repl

\* sys.exit raised by a step function ends alignment()
CallContinuing(r, ev, promoted, nextpc) ==
  /\ fs' = r.fs
  /\ faults' = faults + r.fault
  /\ log' = Append(log, ev)
  /\ replace' = IF promoted THEN Promote(replace, r.ret) ELSE replace
  /\ IF nextpc = "KeyError" THEN pc' = "exit" /\ exit_code' = 1
     ELSE pc' = nextpc /\ exit_code' = exit_code

\* the caller's side of one call: the outcome r is applied, the flag is
\* promoted when the caller looks at the returned value.  nextpc "KeyError"
\* stands for the uncaught exception of the statement that follows the call.
Call(r, ev, promoted, nextpc) ==
  /\ fs' = r.fs
  /\ faults' = faults + r.fault
  /\ log' = Append(log, ev)
  /\ replace' = IF r.exit = 0 /\ promoted THEN Promote(replace, r.ret)
                ELSE replace
  /\ IF r.exit # 0 THEN pc' = "exit" /\ exit_code' = r.exit
     ELSE IF nextpc = "KeyError" THEN pc' = "exit" /\ exit_code' = 1
     ELSE pc' = nextpc /\ exit_code' = exit_code

\* line 258 and the loop headers (lines 199, 212), reached when the last call
\* of an iteration has returned: the new values of generated_alignments, pi,
\* di
Stored(r, nextpc, path) ==
  IF r.exit = 0 /\ nextpc \in {"align", "select"}
  THEN generated_alignments \cup {path} ELSE generated_alignments

AfterStore ==
  IF di < Len(directions) \/ pi < Len(cfg.alignment) THEN "align" ELSE "select"

NextDi(r, nextpc) ==
  IF r.exit = 0 /\ nextpc \in {"align", "select"} /\ di < Len(directions)
  THEN di + 1
  ELSE IF r.exit = 0 /\ nextpc = "align" THEN 1 ELSE di

NextPiStuck(r, nextpc) == pi

NextPi(r, nextpc) ==
  IF r.exit = 0 /\ nextpc = "align" /\ ~(di < Len(directions))
  THEN pi + 1 ELSE pi

AfterRevIn == IF rare THEN "sub_fwd" ELSE "align"
AfterCheckAgain == "check"
AfterCheck == IF cfg.both_direction THEN "rev_in" ELSE AfterRevIn
AfterSubFwd == IF cfg.both_direction THEN "sub_rev" ELSE "align"
AfterRestoreStoring == AfterStore
AfterRestore == IF direc = "reverse" THEN "rerev" ELSE AfterStore
AfterAlign == IF rare THEN "restore" ELSE AfterRestore

\* lines 294-304: prog = parameters["trimming"][0], a KeyError without it
AfterConvert ==
  IF cfg.residue_datatype \in BackTranslation
  THEN (IF cfg.trimming THEN "backtrans" ELSE "KeyError")
  ELSE IF cfg.trimming THEN "trim" ELSE "finish"

-----------------------------------------------------------------------------
(* alignment(): one action per step of the function.                       *)

locals == << pi, di, out_file, generated_alignments, in_file_param >>
runvars == << cfg, replace0, run, prev, cwd >>

\* lines 74-153: the change to the output directory, the option checks, the
\* inspection of the input and the minimum-sequence gate
notEnoughOrJustEnough(numSeqs, minimum) == numSeqs <= minimum

\* "if numSeqs < min_seqs:"
notEnough(numSeqs, minimum) == numSeqs < minimum

\* the option checks without the one of lines 112-113
optionErrorButReadal(c) ==
  \/ "alignment" \in c.missing
  \/ \E i \in DOMAIN c.alignment : c.alignment[i] \in c.missing
  \/ c.cds /\ ("residue_datatype" \in c.missing
                \/ c.residue_datatype \notin BackTranslation)
  \/ ~c.cds /\ ("residue_datatype" \in c.missing
                 \/ c.residue_datatype \in BackTranslation)

\* lines 103-133: each check is a sys.exit with a message, status 1; the
\* lookup of line 130 is a KeyError without "residue_datatype"
optionError(c) ==
  \/ "alignment" \in c.missing
  \/ \E i \in DOMAIN c.alignment : c.alignment[i] \in c.missing
  \/ "readal" \in c.missing
  \/ c.cds /\ ("residue_datatype" \in c.missing
                \/ c.residue_datatype \notin BackTranslation)
  \/ ~c.cds /\ ("residue_datatype" \in c.missing
                 \/ c.residue_datatype \in BackTranslation)

Check ==
  /\ pc = "check"
  /\ IF optionError(cfg)
     THEN pc' = "exit" /\ exit_code' = 1
     ELSE IF notEnough(inspected.numSeqs, min_seqs)
     THEN pc' = "exit" /\ exit_code' = 80
     ELSE pc' = AfterCheck /\ exit_code' = exit_code
  /\ cwd' = out_directory
  /\ UNCHANGED << fs, replace, log, faults, locals, cfg, replace0, run, prev,
                  harnessvars >>

\* lines 159-167: reversal of the input
RevIn ==
  /\ pc = "rev_in"
  /\ out_file' = seqsReverse
  /\ \E r \in reverseSequences(fs, InPath, seqsReverse, replace, budget) :
       Call(r, Event("reverseSequences", "readal", InPath, seqsReverse, r),
            TRUE, AfterRevIn)
  /\ UNCHANGED << pi, di, generated_alignments, in_file_param, runvars,
                  harnessvars >>

\* lines 170-178: substitution of the rare residues of the input
SubFwd ==
  /\ pc = "sub_fwd"
  /\ out_file' = seqsNoRare
  /\ \E r \in replaceRareAminoAcids(fs, InPath, seqsNoRare, replace,
                                    cfg.in_letter, FALSE) :
       Call(r, Event("replaceRareAminoAcids", "", InPath, seqsNoRare, r),
            TRUE, AfterSubFwd)
  /\ UNCHANGED << pi, di, generated_alignments, in_file_param, runvars,
                  harnessvars >>

\* lines 181-189: substitution of the rare residues of the reversed input
SubRev ==
  /\ pc = "sub_rev"
  /\ out_file' = seqsNoRareReverse
  /\ \E r \in replaceRareAminoAcids(fs, seqsReverse, seqsNoRareReverse,
                                    replace, cfg.in_letter, FALSE) :
       Call(r, Event("replaceRareAminoAcids", "", seqsReverse,
                     seqsNoRareReverse, r),
            TRUE, "align")
  /\ UNCHANGED << pi, di, generated_alignments, in_file_param, runvars,
                  harnessvars >>

\* lines 199-229 (and 258 when no other call follows in the iteration): one
\* aligner in one direction
Align ==
  /\ pc = "align"
  /\ out_file' = alignOut(direc, extension(prog))
  /\ \E r \in perfomAlignment(fs, prog, {}, alignIn(direc),
                              alignOut(direc, extension(prog)), replace,
                              budget) :
       /\ Call(r, Event("perfomAlignment", prog, alignIn(direc),
                        alignOut(direc, extension(prog)), r),
               TRUE, AfterAlign)
       /\ generated_alignments' = Stored(r, AfterAlign, out_file')
       /\ di' = NextDi(r, AfterAlign)
       /\ pi' = NextPi(r, AfterAlign)
  /\ UNCHANGED << in_file_param, runvars, harnessvars >>

\* lines 234-245 (and 258): the rare residues are put back
Restore ==
  /\ pc = "restore"
  /\ out_file' = alt_file(direc, extension(prog))
  /\ \E r \in replaceRareAminoAcids(fs, out_file,
                                    alt_file(direc, extension(prog)), replace,
                                    cfg.in_letter, TRUE) :
       /\ Call(r, Event("replaceRareAminoAcids", "back", out_file,
                        alt_file(direc, extension(prog)), r),
               TRUE, AfterRestore)
       /\ generated_alignments' = Stored(r, AfterRestore, out_file')
       /\ di' = NextDi(r, AfterRestore)
       /\ pi' = NextPi(r, AfterRestore)
  /\ UNCHANGED << in_file_param, runvars, harnessvars >>

\* lines 249-258: the reverse alignment is reversed back
ReRev ==
  /\ pc = "rerev"
  /\ out_file' = reverseOut(extension(prog))
  /\ \E r \in reverseSequences(fs, reverseIn(extension(prog)),
                               reverseOut(extension(prog)), replace, budget) :
       /\ Call(r, Event("reverseSequences", "readal",
                        reverseIn(extension(prog)),
                        reverseOut(extension(prog)), r),
               TRUE, AfterStore)
       /\ generated_alignments' = Stored(r, AfterStore, out_file')
       /\ di' = NextDi(r, AfterStore)
       /\ pi' = NextPi(r, AfterStore)
  /\ UNCHANGED << in_file_param, runvars, harnessvars >>

useConsensusForOne == cfg.consensus

\* "if len(generated_alignments) > 1 and "consensus" in parameters:"
useConsensus == Cardinality(generated_alignments) > 1 /\ cfg.consensus

\* lines 260-277: the meta-alignment
Consensus ==
  /\ pc = "select"
  /\ useConsensus
  /\ out_file' = metalig
  /\ \E r \in perfomAlignment(fs, "m_coffee", generated_alignments, InPath,
                              metalig, replace, budget) :
       Call(r, [Event("perfomAlignment", "m_coffee", InPath, metalig, r)
                  EXCEPT !.aln = generated_alignments],
            TRUE, "convert")
  /\ UNCHANGED << pi, di, generated_alignments, in_file_param, runvars,
                  harnessvars >>

\* lines 280-281 (and 294-304): the meta-alignment in phylip format; the
\* returned value is not looked at
Convert ==
  /\ pc = "convert"
  /\ \E r \in convertInputFile_Format(fs, "readal", out_file, out_file,
                                      replace, budget) :
       Call(r, Event("convertInputFile_Format", "readal", out_file, out_file,
                     r),
            FALSE, AfterConvert)
  /\ UNCHANGED << locals, runvars, harnessvars >>

\* lines 284-289 (and 294-304): out_file = generated_alignments.pop(), then
\* that alignment in phylip format; the returned value is not looked at
ConvertSole ==
  /\ pc = "select"
  /\ ~useConsensus
  /\ LET p == pop(generated_alignments) IN
       /\ out_file' = p
       /\ generated_alignments' = generated_alignments \ {p}
       /\ \E r \in convertInputFile_Format(fs, "readal", p, p, replace,
                                           budget) :
            Call(r, Event("convertInputFile_Format", "readal", p, p, r),
                 FALSE, AfterConvert)
  /\ UNCHANGED << pi, di, in_file_param, runvars, harnessvars >>

\* lines 308-315: back-translation of the untrimmed alignment
Backtrans ==
  /\ pc = "backtrans"
  /\ \E r \in trimmingAlignment(fs, "trimal", out_file \o "_cds", replace,
                                out_file, "", "", TRUE, budget) :
       Call(r, Event("trimmingAlignment", "trimal", out_file,
                     out_file \o "_cds", r),
            TRUE, "convert_cds")
  /\ UNCHANGED << locals, runvars, harnessvars >>

\* lines 318-319
ConvertCds ==
  /\ pc = "convert_cds"
  /\ \E r \in convertInputFile_Format(fs, "readal", out_file \o "_cds",
                                      out_file \o "_cds", replace, budget) :
       Call(r, Event("convertInputFile_Format", "readal", out_file \o "_cds",
                     out_file \o "_cds", r),
            FALSE, IF cfg.trimming THEN "trim" ELSE "finish")
  /\ UNCHANGED << locals, runvars, harnessvars >>

\* lines 322-345 and 358-359: trimming; the returned value is not looked at
Trim ==
  /\ pc = "trim"
  /\ LET many == Cardinality(generated_alignments) > 1
         files == IF many
                  THEN Put(fs, path_file, pathsFile(generated_alignments))
                  ELSE fs
         nextpc == IF cfg.residue_datatype \in BackTranslation
                   THEN "trim_cds" ELSE "finish"
     IN  \E r \in trimmingAlignment(files, "trimal", clean_file, replace,
                                    IF many THEN "" ELSE out_file,
                                    IF many THEN path_file ELSE "",
                                    IF many THEN out_file ELSE "",
                                    FALSE, budget) :
           Call(r, [Event("trimmingAlignment", "trimal",
                          IF many THEN "" ELSE out_file, clean_file, r)
                      EXCEPT !.compare = IF many THEN path_file ELSE "",
                             !.refer = IF many THEN out_file ELSE ""],
                FALSE, nextpc)
  /\ UNCHANGED << locals, runvars, harnessvars >>

\* lines 347-355 and 361-368: the trimmed alignment back-translated
TrimCds ==
  /\ pc = "trim_cds"
  /\ LET many == Cardinality(generated_alignments) > 1
     IN  \E r \in trimmingAlignment(fs, "trimal", clean_file \o "_cds",
                                    replace,
                                    IF many THEN "" ELSE out_file,
                                    IF many THEN path_file ELSE "",
                                    IF many THEN out_file ELSE "",
                                    TRUE, budget) :
           Call(r, [Event("trimmingAlignment", "trimal",
                          IF many THEN "" ELSE out_file,
                          clean_file \o "_cds", r)
                      EXCEPT !.compare = IF many THEN path_file ELSE "",
                             !.refer = IF many THEN out_file ELSE ""],
                FALSE, "finish")
  /\ UNCHANGED << locals, runvars, harnessvars >>

\* the return without line 370
FinishUntrimmed ==
  /\ pc = "finish"
  /\ in_file_param' = out_file
  /\ cwd' = current_directory
  /\ pc' = "done"
  /\ UNCHANGED << fs, replace, exit_code, log, faults, pi, di, out_file,
                  generated_alignments, cfg, replace0, run, prev,
                  harnessvars >>

\* lines 370-405: out_file is the trimmed file when there is one,
\* parameters["in_file"] is rebound and the working directory is restored
Finish ==
  /\ pc = "finish"
  /\ out_file' =
       IF cfg.trimming
       THEN clean_file \o (IF cfg.residue_datatype \in BackTranslation
                           THEN "_cds" ELSE "")
       ELSE out_file
  /\ in_file_param' = out_file'
  /\ cwd' = current_directory
  /\ pc' = "done"
  /\ UNCHANGED << fs, replace, exit_code, log, faults, pi, di,
                  generated_alignments, cfg, replace0, run, prev,
                  harnessvars >>

-----------------------------------------------------------------------------
(* The stage is run again on the same output directory (pipeline.py builds *)
(* parameters anew for every process), and an artifact may be removed      *)
(* after a run that completed.                                             *)

Rerun ==
  /\ pc \in {"done", "exit", "crashed"}
  /\ run < MaxRuns
  /\ run' = run + 1
  /\ \E b \in BOOLEAN : replace' = b /\ replace0' = b
  /\ prev' = [ended |-> pc, removed |-> prev.pending, pending |-> FALSE]
  /\ pc' = "check"
  /\ exit_code' = 0
  /\ pi' = 1 /\ di' = 1
  /\ out_file' = ""
  /\ generated_alignments' = {}
  /\ in_file_param' = InPath
  /\ log' = << >>
  /\ cwd' = current_directory
  /\ UNCHANGED << cfg, fs, faults, harnessvars >>

Remove ==
  /\ pc = "done"
  /\ run < MaxRuns
  /\ faults < MaxFaults
  /\ \E p \in DOMAIN fs \ {InPath} :
       fs' = [q \in DOMAIN fs \ {p} |-> fs[q]]
  /\ faults' = faults + 1
  /\ prev' = [prev EXCEPT !.pending = TRUE]
  /\ UNCHANGED << cfg, pc, replace, replace0, exit_code, log, run, cwd,
                  locals, harnessvars >>

\* The process is killed between two calls of step functions: nothing is
\* written, nothing of the run survives but the files.
CrashBetween ==
  /\ pc \notin {"done", "exit", "crashed"}
  /\ faults < MaxFaults
  /\ faults' = faults + 1
  /\ pc' = "crashed"
  /\ UNCHANGED << fs, replace, exit_code, log, locals, runvars, harnessvars >>

\* the call of replaceRareAminoAcids the run is about to make
substitution ==
  IF pc = "sub_fwd" THEN [inf |-> InPath, out |-> seqsNoRare, back |-> FALSE]
  ELSE IF pc = "sub_rev"
  THEN [inf |-> seqsReverse, out |-> seqsNoRareReverse, back |-> FALSE]
  ELSE [inf |-> out_file, out |-> alt_file(direc, extension(prog)),
        back |-> TRUE]

\* The process is killed inside the writing loop of replaceRareAminoAcids
\* (lines 463-486): the destination holds the records written so far.
CrashWriting ==
  /\ pc \in {"sub_fwd", "sub_rev", "restore"}
  /\ faults < MaxFaults
  /\ ~alreadyGenerated(fs, substitution.out, replace)
  /\ substitution.inf \in DOMAIN fs
  /\ \E l \in Leftovers(Fasta(substituteRecs(SeqIO_parse(fs[substitution.inf]),
                                             cfg.in_letter,
                                             substitution.back))) :
       fs' = Put(fs, substitution.out, l)
  /\ faults' = faults + 1
  /\ pc' = "crashed"
  /\ UNCHANGED << replace, exit_code, log, locals, runvars, harnessvars >>

Init ==
  /\ cfg \in Configs
  /\ fs = [p \in {InPath} |-> Fasta(cfg.input)]
  /\ pc = "check"
  /\ replace \in BOOLEAN
  /\ replace0 = replace
  /\ pi = 1 /\ di = 1
  /\ out_file = ""
  /\ generated_alignments = {}
  /\ in_file_param = InPath
  /\ exit_code = 0
  /\ log = << >>
  /\ run = 1
  /\ faults = 0
  /\ prev = [ended |-> "none", removed |-> FALSE, pending |-> FALSE]
  /\ cwd = current_directory
  /\ va = EmptyFile /\ vb = EmptyFile /\ vres = FALSE
  /\ children = {} /\ started = << >>
  /\ vop = [op |-> "none", gaps |-> 0]

Next ==
  \/ Check \/ RevIn \/ SubFwd \/ SubRev \/ Align \/ Restore \/ ReRev
  \/ Consensus \/ Convert \/ ConvertSole \/ Backtrans \/ ConvertCds
  \/ Trim \/ TrimCds \/ Finish \/ Rerun \/ Remove

Spec == Init /\ [][Next]_vars

\* The steps of alignment() other than the calls of perfomAlignment: the
\* interpreter goes on to the next statement, and the child process of the
\* step ends.
OtherSteps ==
  \/ Check \/ RevIn \/ SubFwd \/ SubRev \/ Restore \/ ReRev
  \/ Convert \/ ConvertSole \/ Backtrans \/ ConvertCds
  \/ Trim \/ TrimCds \/ Finish

\* The calls of perfomAlignment: a run does not stay in front of the call
\* for ever, the aligner that is started ends.  This is weak fairness of
\* Align and of Consensus with the position of the run in the place of
\* ENABLED.
AlignersEnd ==
  /\ []<>(pc # "align") \/ []<><<Align>>_vars
  /\ []<>(~(pc = "select" /\ useConsensus)) \/ []<><<Consensus>>_vars

SpecLive ==
  Init /\ [][Next]_vars /\ WF_vars(OtherSteps) /\ AlignersEnd

\* the same with runs that are interrupted
NextCrash == Next \/ CrashBetween \/ CrashWriting

SpecCrash == Init /\ [][NextCrash]_vars

-----------------------------------------------------------------------------
(* checkAlignment on its own: two files drawn from a bounded set, the      *)
(* validator applied to them, then the second file edited (a gap inserted  *)
(* or removed, one residue changed) and the validator applied again.  vop  *)
(* is "init" before the first application, "check" once vres is the result *)
(* for va and vb, "mutate" after the change of a residue.                  *)

HRecs ==
  { Rec(i, s) : i \in {"s1", "s2"}, s \in { <<"A">>, <<"a", "-">> } }
  \cup { Rec("s1", <<"C">>) }

\* a path at which no file exists
Absent == [fmt |-> "absent", recs |-> << >>]

HFiles ==
  { Fasta(c) : c \in UNION { [1..n -> HRecs] : n \in 0..MaxRecs } }
  \cup { toolPhylip(Fasta(<< Rec("s1", <<"A">>) >>)), Absent }

\* the file system holding a at "A" and b at "B"
HFs(a, b) ==
  [p \in {q \in {"A", "B"} : (IF q = "A" THEN a ELSE b) # Absent} |->
     IF p = "A" THEN a ELSE b]

SetSeq(f, i, s) ==
  [fmt |-> f.fmt, recs |-> [f.recs EXCEPT ![i] = Rec(f.recs[i].id, s)]]

VCheck ==
  /\ vop.op = "init"
  /\ vres' = checkAlignment(HFs(va, vb), "A", "B")
  /\ vop' = [op |-> "check", gaps |-> 0]
  /\ UNCHANGED << va, vb, pipevars, procvars >>

VInsertGap ==
  /\ vop.op = "check"
  /\ vop.gaps < MaxGaps
  /\ vb.fmt = "fasta"
  /\ \E i \in 1..Len(vb.recs) : \E j \in 0..Len(vb.recs[i].seq) :
       vb' = SetSeq(vb, i, SubSeq(vb.recs[i].seq, 1, j) \o << Gap >>
                             \o SubSeq(vb.recs[i].seq, j + 1,
                                       Len(vb.recs[i].seq)))
  /\ vres' = checkAlignment(HFs(va, vb'), "A", "B")
  /\ vop' = [op |-> "check", gaps |-> vop.gaps + 1]
  /\ UNCHANGED << va, pipevars, procvars >>

VRemoveGap ==
  /\ vop.op = "check"
  /\ vb.fmt = "fasta"
  /\ \E i \in 1..Len(vb.recs) : \E j \in 1..Len(vb.recs[i].seq) :
       /\ vb.recs[i].seq[j] = Gap
       /\ vb' = SetSeq(vb, i, SubSeq(vb.recs[i].seq, 1, j - 1)
                                \o SubSeq(vb.recs[i].seq, j + 1,
                                          Len(vb.recs[i].seq)))
  /\ vres' = checkAlignment(HFs(va, vb'), "A", "B")
  /\ UNCHANGED << va, vop, pipevars, procvars >>

\* one residue of one FASTA record of the second file of an accepted pair
\* becomes a different residue code
VMutate ==
  /\ vop.op = "check"
  /\ vres
  /\ vb.fmt = "fasta"
  /\ \E i \in 1..Len(vb.recs) : \E j \in 1..Len(vb.recs[i].seq) :
       \E c \in UpperLetters \cup LowerLetters :
         /\ isAlpha(vb.recs[i].seq[j])
         /\ upper(c) # upper(vb.recs[i].seq[j])
         /\ vb' = SetSeq(vb, i, [vb.recs[i].seq EXCEPT ![j] = c])
  /\ vres' = checkAlignment(HFs(va, vb'), "A", "B")
  /\ vop' = [op |-> "mutate", gaps |-> vop.gaps]
  /\ UNCHANGED << va, pipevars, procvars >>

InitCheck ==
  /\ cfg = Config(PlainInput, FALSE, <<"muscle">>, TRUE, NoTrimming)
  /\ fs = [p \in {InPath} |-> Fasta(cfg.input)]
  /\ pc = "done"
  /\ replace = FALSE /\ replace0 = FALSE
  /\ pi = 1 /\ di = 1
  /\ out_file = ""
  /\ generated_alignments = {}
  /\ in_file_param = InPath
  /\ exit_code = 0
  /\ log = << >>
  /\ run = MaxRuns
  /\ faults = 0
  /\ prev = [ended |-> "none", removed |-> FALSE, pending |-> FALSE]
  /\ cwd = current_directory
  /\ va \in HFiles /\ vb \in HFiles
  /\ vres = FALSE
  /\ vop = [op |-> "init", gaps |-> 0]
  /\ children = {} /\ started = << >>

NextCheck == VCheck \/ VInsertGap \/ VRemoveGap \/ VMutate

SpecCheck == InitCheck /\ [][NextCheck]_vars

-----------------------------------------------------------------------------
(* Properties of a run of alignment(), stated over the log of its calls.   *)

Calls == 1..Len(log)
Last(s) == s[Len(s)]

\* the residue string without its non-alphabetic characters, upper-cased
RECURSIVE Canon(_)
Canon(s) ==
  IF s = << >> THEN << >>
  ELSE (IF Head(s) \in {"-"} THEN << >>
        ELSE IF Head(s) = "a" THEN << "A" >>
        ELSE IF Head(s) = "u" THEN << "U" >>
        ELSE << Head(s) >>) \o Canon(Tail(s))

Ids(recs) == {recs[i].id : i \in 1..Len(recs)}

NoRepeat(recs) ==
  \A i, j \in 1..Len(recs) : recs[i].id = recs[j].id => i = j

\* equivalence of two collections
Equivalent(c1, c2) ==
  /\ Ids(c1) = Ids(c2)
  /\ \A i \in 1..Len(c1) : \A j \in 1..Len(c2) :
       c1[i].id = c2[j].id => Canon(c1[i].seq) = Canon(c2[j].seq)

\* C1: when a call of a step function has regenerated its artifact, every
\* later call of the run regenerates its artifact too (or ends the run
\* trying): no later call takes the skip branch.
RegenerationCascade ==
  \A i, j \in Calls :
    (i < j /\ log[i].ret) => (log[j].ret \/ log[j].exit # 0)

\* C2: in a run that follows a completed run, with replace = false at its
\* start and no artifact removed in between, every call takes the skip
\* branch, no process is started, the flag stays false and the run does not
\* exit.
AfterCompletedRun == prev.ended = "done" /\ ~prev.removed /\ ~replace0

Idempotence ==
  AfterCompletedRun =>
    /\ \A i \in Calls : ~log[i].ret /\ log[i].exit = 0 /\ log[i].procs = 0
    /\ ~replace
    /\ pc # "exit"

IdempotenceWitness ==
  /\ AfterCompletedRun
  /\ pc = "done"
  /\ \E i, j \in Calls : log[i].fn = "perfomAlignment"
                         /\ log[j].fn = "trimmingAlignment"

\* C3: within a run, a step from a state where replace is true leads to a
\* state where replace is true.
ReplaceMonotone == [][(replace /\ run' = run) => replace']_vars

ReplaceMonotoneWitness == replace /\ ~replace0 /\ pc = "done"

\* C4: once some call of the run has written its artifact, replace is true.
WritersPromote == (\E i \in Calls : log[i].ret) => replace

\* C5: a call of a step function whose destination exists with non-zero
\* size while the flag is false returns False, starts no process and leaves
\* the destination as it was; any other call executes: it returns True or
\* ends the run.
SkipContract ==
  [][Len(log') = Len(log) + 1 =>
       LET e == Last(log')
       IN  IF e.out \in DOMAIN fs /\ Len(fs[e.out].recs) > 0 /\ ~replace
           THEN /\ ~e.ret /\ e.exit = 0 /\ e.procs = 0
                /\ e.out \in DOMAIN fs' /\ fs'[e.out] = fs[e.out]
           ELSE e.ret \/ e.exit # 0]_vars

SkipContractWitness ==
  \E i \in Calls :
    log[i].isfile /\ log[i].size = 0 /\ ~log[i].repl /\ log[i].ret

\* C6: when alignment() has returned, every alignment of the generated set
\* and the untrimmed alignment that went to the conversion are equivalent
\* to the input collection.
Untrimmed ==
  { log[i].out : i \in { k \in Calls :
      /\ log[k].fn = "convertInputFile_Format"
      /\ \A m \in 1..(k - 1) : log[m].fn # "convertInputFile_Format" } }

EndToEndIntegrity ==
  (pc = "done" /\ ~prev.pending) =>
    \A p \in generated_alignments \cup Untrimmed :
      p \in DOMAIN fs /\ Equivalent(fs[p].recs, cfg.input)

\* C7: the validator returns True exactly when both files exist with
\* non-zero size, neither repeats an identifier, the identifier sets are
\* equal and the residues per identifier are equal once non-alphabetic
\* characters are deleted and case is folded; and a gap inserted into or
\* removed from the second file leaves the result as it was.
Accepts(a, b) ==
  /\ a # Absent /\ Len(a.recs) > 0
  /\ b # Absent /\ Len(b.recs) > 0
  /\ NoRepeat(SeqIO_parse(a)) /\ NoRepeat(SeqIO_parse(b))
  /\ Equivalent(SeqIO_parse(a), SeqIO_parse(b))

ValidatorCharacterised ==
  /\ [](vop.op \in {"check", "mutate"} => vres = Accepts(va, vb))
  /\ [][vres' = vres \/ ~(VInsertGap \/ VRemoveGap)]_vars

ValidatorCharacterisedWitness ==
  /\ vop.op = "check" /\ vop.gaps > 0 /\ vres
  /\ \E i \in 1..Len(vb.recs) : Gap \in Range(vb.recs[i].seq)

\* C8: after one residue of one record of the second file of an accepted
\* pair has become a different residue code, the validator returns False.
MutationRejected == vop.op = "mutate" => ~vres

MutationRejectedWitness == vop.op = "mutate" /\ ~vres /\ Len(vb.recs) > 1

\* C9: after a call of perfomAlignment that started the tool, either the
\* call returned True and the validator accepts (in_file, out_file), or the
\* run has ended with the exit code of that tool; a run that has ended
\* executes nothing more.
AlignerValidated ==
  /\ []((Len(log) > 0 /\ Last(log).fn = "perfomAlignment") =>
          LET e == Last(log)
          IN  /\ e.ret => checkAlignment(fs, e.inf, e.out)
              /\ e.procs > 0 =>
                   \/ e.ret /\ e.checked
                   \/ /\ pc = "exit"
                      /\ e.exit = exit_codes[e.label]
                      /\ exit_code = e.exit)
  /\ [][(pc = "exit" /\ run' = run) => UNCHANGED << fs, log, pc >>]_vars

AlignerValidatedWitness ==
  /\ Len(log) > 0
  /\ Last(log).fn = "perfomAlignment"
  /\ Last(log).checked /\ Last(log).exit # 0
  /\ pc = "exit"

\* C10: every call that wrote an alignment (aligner, restoration of the rare
\* residues, reversal of a reverse alignment, consensus, format conversion)
\* and returned has had its output accepted by the validator.
AlignmentProducing(e) ==
  \/ e.fn = "perfomAlignment"
  \/ e.fn = "replaceRareAminoAcids" /\ e.label = "back"
  \/ e.fn = "reverseSequences" /\ e.inf # InPath
  \/ e.fn = "convertInputFile_Format"

ValidatorEnforced ==
  \A i \in Calls : (log[i].ret /\ AlignmentProducing(log[i])) => log[i].checked

-----------------------------------------------------------------------------
(* replaceRareAminoAcids on its own: one residue string and one table, the *)
(* substitution applied to the string and the restoration applied to the   *)
(* result.  va holds the original, vb the last file written.               *)

CodecLetters == {"A", "U", "O", "B", "u"}

CodecStrings == UNION { [1..n -> CodecLetters] : n \in 0..MaxLen }

\* parameters["in_letter"]: "U:B", "U:B O:Z", "U:X O:X"
CodecTables ==
  { << <<"U", "B">> >>,
    << <<"U", "B">>, <<"O", "Z">> >>,
    << <<"U", "X">>, <<"O", "X">> >> }

KSubstitute ==
  /\ vop.op = "init"
  /\ \E r \in replaceRareAminoAcids([p \in {"A"} |-> va], "A", "B", FALSE,
                                    vop.table, FALSE) :
       vb' = r.fs["B"]
  /\ vop' = [vop EXCEPT !.op = "sub"]
  /\ UNCHANGED << va, vres, pipevars, procvars >>

KRestore ==
  /\ vop.op = "sub"
  /\ \E r \in replaceRareAminoAcids([p \in {"B"} |-> vb], "B", "C", FALSE,
                                    vop.table, TRUE) :
       vb' = r.fs["C"]
  /\ vop' = [vop EXCEPT !.op = "back"]
  /\ UNCHANGED << va, vres, pipevars, procvars >>

InitCodec ==
  /\ cfg = Config(PlainInput, FALSE, <<"muscle">>, TRUE, NoTrimming)
  /\ fs = [p \in {InPath} |-> Fasta(cfg.input)]
  /\ pc = "done"
  /\ replace = FALSE /\ replace0 = FALSE
  /\ pi = 1 /\ di = 1
  /\ out_file = ""
  /\ generated_alignments = {}
  /\ in_file_param = InPath
  /\ exit_code = 0
  /\ log = << >>
  /\ run = MaxRuns
  /\ faults = 0
  /\ prev = [ended |-> "none", removed |-> FALSE, pending |-> FALSE]
  /\ cwd = current_directory
  /\ \E seq \in CodecStrings : va = Fasta(<< Rec("s1", seq) >>)
  /\ vb = va
  /\ vres = FALSE
  /\ \E t \in CodecTables : vop = [op |-> "init", table |-> t]
  /\ children = {} /\ started = << >>

NextCodec == KSubstitute \/ KRestore

SpecCodec == InitCodec /\ [][NextCodec]_vars

\* C11: an aligner artifact that is reused (a call of perfomAlignment that
\* takes the skip branch) is a valid alignment of its input: no artifact that
\* the validator rejected or that a failed aligner left behind is on disk
\* for a later call to reuse.
RejectedNeverReused ==
  (Len(log) > 0 /\ Last(log).fn = "perfomAlignment"
     /\ ~Last(log).ret /\ Last(log).exit = 0) =>
    Equivalent(FileAt(fs, Last(log).out).recs, FileAt(fs, Last(log).inf).recs)

\* C12: a run with replace = false that follows an interrupted run ends with
\* the artifacts of an uninterrupted run: every alignment of the generated
\* set and the untrimmed alignment are on disk and hold one record per
\* record of the input, with the identifiers of the input.
CrashRestart ==
  (prev.ended = "crashed" /\ ~replace0 /\ pc = "done") =>
    \A p \in generated_alignments \cup Untrimmed :
      /\ p \in DOMAIN fs
      /\ Len(fs[p].recs) = Len(cfg.input)
      /\ Ids(fs[p].recs) = Ids(cfg.input)

\* C13: for a residue string that holds U or O, the substitution followed
\* by the restoration gives the string back.
HoldsRare(seq) == \E i \in 1..Len(seq) : seq[i] \in {"U", "O"}

CodecRoundTrip ==
  (vop.op = "back" /\ HoldsRare(va.recs[1].seq)) => vb = va

\* C14: with fewer records than the minimum the run ends at the gate with
\* status 80, no step function has been called and the output directory
\* holds nothing but the input; with at least as many records as the
\* minimum the run never ends with status 80.
MinSeqGate ==
  IF inspected.numSeqs < min_seqs
  THEN /\ pc \in {"check", "exit"}
       /\ pc = "exit" => exit_code = 80
       /\ log = << >>
       /\ DOMAIN fs = {InPath}
  ELSE exit_code # 80

MinSeqGateWitness ==
  /\ pc = "exit" /\ exit_code = 80
  /\ inspected.numSeqs = 3 /\ min_seqs = 4

\* C15: a run whose aligner selection holds an unsupported name, and in
\* which no tool fails, ends with status 95 without any process having been
\* started.
UnsupportedSelected ==
  \E i \in 1..Len(cfg.alignment) : cfg.alignment[i] \notin SupportedLabels

UnsupportedTool ==
  (UnsupportedSelected /\ faults = 0 /\ pc \in {"done", "exit"}) =>
    /\ pc = "exit" /\ exit_code = exit_codes["generic"]
    /\ \A i \in Calls : log[i].procs = 0

\* C16: the alignments the loop over aligners and directions yields
LoopArtifact(p, d) ==
  IF d = "reverse" THEN reverseOut(extension(p))
  ELSE IF rare THEN alt_file(d, extension(p))
  ELSE alignOut(d, extension(p))

LoopArtifacts ==
  { LoopArtifact(cfg.alignment[i], directions[j]) :
      i \in 1..Len(cfg.alignment), j \in 1..Len(directions) }

Conversions == {i \in Calls : log[i].fn = "convertInputFile_Format"}
ConsensusCalls == {i \in Calls : log[i].label = "m_coffee"}
FirstConversion == CHOOSE i \in Conversions : \A j \in Conversions : i <= j

\* C16: once the untrimmed alignment has gone to the format conversion: with
\* more than one alignment from the loop and a consensus tool configured,
\* the call before the conversion is the one call of the consensus tool,
\* made with exactly those alignments and the original input, and its
\* output is what is converted; otherwise the consensus tool has not been
\* called and one alignment of the loop (the sole one, when there is one)
\* is converted.
ConsensusFanIn ==
  Conversions # {} =>
    LET c == FirstConversion
    IN  IF Cardinality(LoopArtifacts) > 1 /\ cfg.consensus
        THEN /\ ConsensusCalls = {c - 1}
             /\ log[c - 1].aln = LoopArtifacts
             /\ log[c - 1].inf = InPath
             /\ log[c].inf = log[c - 1].out
        ELSE /\ ConsensusCalls = {}
             /\ log[c].inf \in LoopArtifacts

ConsensusFanInWitness ==
  /\ Conversions # {}
  /\ Cardinality(LoopArtifacts) = 4
  /\ ConsensusCalls # {}
  /\ pc = "done"

\* C16 as stated: more than one alignment from the loop means that the
\* consensus tool has been called with them before the conversion.
ConsensusWheneverMany ==
  (Conversions # {} /\ Cardinality(LoopArtifacts) > 1) =>
    \E i \in ConsensusCalls : i < FirstConversion /\ log[i].aln = LoopArtifacts

\* C17: the calls that trim (destination o.alg.clean or o.alg.clean_cds):
\* when the loop has yielded more than one alignment, each is made in
\* compare mode, with the index file that lists every alignment of the loop
\* and the untrimmed alignment as forced reference, and without a reference
\* input; when the loop has yielded one alignment, each is made with the
\* untrimmed alignment as reference input and nothing to compare.
TrimCalls ==
  { i \in Calls : /\ log[i].fn = "trimmingAlignment"
                  /\ log[i].out \in {clean_file, clean_file \o "_cds"} }

TrimmingMode ==
  ~prev.pending =>
    \A i \in TrimCalls :
      IF Cardinality(LoopArtifacts) > 1
      THEN /\ log[i].compare = path_file
           /\ path_file \in DOMAIN fs
           /\ Ids(fs[path_file].recs) = LoopArtifacts
           /\ log[i].refer = log[FirstConversion].out
           /\ log[i].inf = ""
      ELSE /\ log[i].inf = log[FirstConversion].out
           /\ log[i].compare = "" /\ log[i].refer = ""

\* C18: when a run of alignment() has ended, by its return or by an exit,
\* the working directory is the one the run was entered with.
CwdRestored == pc \in {"done", "exit"} => cwd = current_directory

\* C19: a call that failed is the last call of its run: the run has ended
\* with the status of that call, the flag is as it was when the call was
\* made and parameters["in_file"] has not been rebound; and a run that has
\* ended by an exit changes nothing any more.
FailuresTerminal ==
  /\ [](\A i \in Calls :
          log[i].exit # 0 =>
            /\ i = Len(log)
            /\ pc = "exit" /\ exit_code = log[i].exit
            /\ replace = log[i].repl)
  /\ [](pc = "exit" => exit_code # 0 /\ in_file_param = InPath)
  /\ [][(pc = "exit" /\ run' = run) =>
          UNCHANGED << fs, log, replace, in_file_param, pc, exit_code >>]_vars

FailuresTerminalWitness ==
  /\ pc = "exit"
  /\ Len(log) > 1 /\ Last(log).exit # 0 /\ Last(log).procs > 0
  /\ replace /\ ~replace0

\* the tools a run of the configuration may invoke, by their labels
ConfiguredTools ==
  {cfg.alignment[i] : i \in DOMAIN cfg.alignment}
    \cup {"readal"}
    \cup (IF cfg.consensus THEN {"m_coffee"} ELSE {})
    \cup (IF cfg.trimming THEN {"trimal"} ELSE {})

\* C20: a run that ended on a launch failure or non-zero exit of an invoked
\* tool ended with the entry of that tool in exit_codes, and no other tool
\* of the configuration has that entry: the status tells which tool failed.
ExitStatusNamesTool ==
  \A i \in Calls :
    (log[i].exit # 0 /\ log[i].procs > 0 /\ ~log[i].checked) =>
      /\ pc = "exit" /\ exit_code = exit_codes[log[i].label]
      /\ \A l \in ConfiguredTools :
           exit_codes[l] = exit_code => l = log[i].label

\* the configurations C22 names: no alignment selection, a selected aligner
\* without a binary entry, no readAl entry, a CDS file without a
\* back-translation datatype, a back-translation datatype without a CDS file
Misconfigured ==
  \/ "alignment" \in cfg.missing
  \/ \E i \in DOMAIN cfg.alignment : cfg.alignment[i] \in cfg.missing
  \/ "readal" \in cfg.missing
  \/ cfg.cds /\ cfg.residue_datatype \notin BackTranslation
  \/ ~cfg.cds /\ cfg.residue_datatype \in BackTranslation

\* C22: under a configuration of one of these kinds a run ends in the option
\* checks with the status of a message exit, no step function has been
\* called and no file has been written.
ConfigErrorsFatal ==
  Misconfigured =>
    /\ pc \in {"check", "exit"}
    /\ pc = "exit" => exit_code = 1
    /\ log = << >>
    /\ fs = [p \in {InPath} |-> Fasta(cfg.input)]
    /\ faults = 0

ConfigErrorsFatalWitness ==
  /\ Misconfigured /\ "readal" \in cfg.missing /\ cfg.both_direction
  /\ pc = "exit" /\ exit_code = 1 /\ run = 2

\* the failure classes of the exit statuses, as the comments of the table
\* name them
FailureClasses == {"sequences", "format", "aligner", "trimming", "unsupported"}

classOfLabel(l) ==
  IF l = "readal" THEN "format"
  ELSE IF l = "trimal" THEN "trimming"
  ELSE IF l = "generic" THEN "unsupported"
  ELSE "aligner"

\* the statuses the code uses for a class: the entries of the table and the
\* literal of line 153
ClassStatuses(c) ==
  IF c = "sequences" THEN {80}
  ELSE {exit_codes[l] : l \in {x \in DOMAIN exit_codes : classOfLabel(x) = c}}

\* what made the run end, read from the last call and the inspection and
\* not from the status; "other" is an uncaught exception or a refused option
failureClass ==
  IF Len(log) > 0 /\ Last(log).exit # 0
  THEN LET e == Last(log)
       IN  IF e.fn \in {"reverseSequences", "convertInputFile_Format"}
           THEN "format"
           ELSE IF e.fn = "trimmingAlignment" THEN "trimming"
           ELSE IF e.fn = "perfomAlignment"
                THEN (IF e.procs = 0 THEN "unsupported" ELSE "aligner")
           ELSE "other"
  ELSE IF log = << >> /\ ~optionError(cfg) /\ inspected.numSeqs < min_seqs
       THEN "sequences"
       ELSE "other"

\* C21: a run that ended by a failure of one of the five classes ended with
\* a status the code uses for that class and for no other class.
StatusesSeparateClasses ==
  (pc = "exit" /\ failureClass # "other") =>
    /\ exit_code \in ClassStatuses(failureClass)
    /\ \A c \in FailureClasses \ {failureClass} :
         exit_code \notin ClassStatuses(c)

StatusesSeparateClassesWitness ==
  /\ pc = "exit" /\ failureClass = "trimming"
  /\ exit_code = 82 /\ exit_code \notin ClassStatuses("format")

Ungap(s) == SelectSeq(s, LAMBDA c : c # Gap)

SameResidues(c1, c2) ==
  /\ Len(c1) = Len(c2)
  /\ \A i \in 1..Len(c1) :
       c1[i].id = c2[i].id /\ Ungap(c1[i].seq) = Ungap(c2[i].seq)

\* the calls that reversed an alignment of the reversed input
ReReversals ==
  { i \in Calls : /\ log[i].fn = "reverseSequences"
                  /\ log[i].out # seqsReverse
                  /\ log[i].ret }

\* C24: with tools that do what they are for, once the post-alignment
\* reversal has written its file, every record of that file holds, gaps
\* aside, the residues of the input record in the input's order.
ReversalInvolution ==
  (faults = 0 /\ Len(log) > 0 /\ Len(log) \in ReReversals) =>
    SameResidues(FileAt(fs, Last(log).out).recs, cfg.input)

\* the extensions of the configured aligners
Extensions == {extension(cfg.alignment[i]) : i \in DOMAIN cfg.alignment}

\* the calls of the run by what they are for: the aligner on the reversed
\* input, the reversal of the raw input, the substitution in the reversed
\* input, the restoration in the reverse direction, the re-reversal
ReverseAlign(i, e) ==
  log[i].fn = "perfomAlignment" /\ log[i].out = alignOut("reverse", e)
InputReversal(i) ==
  /\ log[i].fn = "reverseSequences"
  /\ log[i].inf = InPath
  /\ log[i].out = seqsReverse
ReverseSubstitution(i) ==
  /\ log[i].fn = "replaceRareAminoAcids"
  /\ log[i].inf = seqsReverse
  /\ log[i].out = seqsNoRareReverse
ReverseRestoration(i, e) ==
  /\ log[i].fn = "replaceRareAminoAcids"
  /\ log[i].label = "back"
  /\ log[i].inf = alignOut("reverse", e)
  /\ log[i].out = alt_file("reverse", e)
PostReversal(i, e) ==
  /\ log[i].fn = "reverseSequences"
  /\ log[i].inf = reverseIn(e)
  /\ log[i].out = reverseOut(e)
ReverseAligns(e) == { i \in Calls : ReverseAlign(i, e) }
InputReversals == { i \in Calls : InputReversal(i) }
ReverseSubstitutions == { i \in Calls : ReverseSubstitution(i) }
ReverseRestorations(e) == { i \in Calls : ReverseRestoration(i, e) }
PostReversals(e) == { i \in Calls : PostReversal(i, e) }

\* C25: in the reverse direction the aligner is called on the substituted
\* reversed input (on the reversed input when there is no rare residue),
\* after the reversal of the raw input and after the substitution in the
\* reversed file, in this order; the post-alignment reversal comes after the
\* aligner and, with a rare residue, after the restoration, whose output it
\* reads; and of the three files of the reverse direction only the
\* re-reversed one is ever in generated_alignments, where it is as soon as
\* the re-reversal has returned.
ReverseOrdering ==
  LET detected == rare
      fed == IF detected THEN seqsNoRareReverse ELSE seqsReverse
  IN
  /\ \A e \in Extensions :
       LET aligned == alignOut("reverse", e)
           restored == alt_file("reverse", e)
           ReverseAlignAt(i) ==
             log[i].fn = "perfomAlignment" /\ log[i].out = aligned
           ReverseRestorationAt(i) ==
             /\ log[i].fn = "replaceRareAminoAcids"
             /\ log[i].label = "back"
             /\ log[i].inf = aligned
             /\ log[i].out = restored
       IN
       /\ \A a \in Calls : ReverseAlignAt(a) =>
            /\ log[a].inf = fed
            /\ \E r \in 1..(a - 1) :
                 /\ InputReversal(r)
                 /\ detected =>
                      \E s \in (r + 1)..(a - 1) : ReverseSubstitution(s)
       /\ \A p \in Calls : PostReversal(p, e) =>
            /\ \E a \in 1..(p - 1) :
                 /\ ReverseAlignAt(a)
                 /\ detected =>
                      \E b \in (a + 1)..(p - 1) : ReverseRestorationAt(b)
            /\ ~detected => log[p].inf = aligned
       /\ aligned \notin generated_alignments
       /\ restored \notin generated_alignments
  /\ (Len(log) > 0 /\ Last(log).exit = 0 /\ pc \in {"align", "select"}
        /\ \E e \in Extensions : PostReversal(Len(log), e)) =>
       Last(log).out \in generated_alignments

ReverseOrderingWitness ==
  /\ rare /\ pc = "select"
  /\ \E e \in Extensions : Len(log) \in PostReversals(e)
  /\ Last(log).ret
  /\ Last(log).out \in generated_alignments

-----------------------------------------------------------------------------
(* The child processes of the step functions on their own: any sequence of *)
(* calls of the four functions that start a tool, with sp.Popen and        *)
(* proc.wait() as separate steps.  An entry of started is                  *)
(* [fn, label, launched, waited, status, exit]: waited says that           *)
(* proc.wait() has returned, with status; exit is the status of sys.exit,  *)
(* 0 while the function has not exited.                                    *)

StepKinds ==
  { <<"reverseSequences", "readal">>, <<"perfomAlignment", "muscle">>,
    <<"perfomAlignment", "m_coffee">>, <<"trimmingAlignment", "trimal">>,
    <<"convertInputFile_Format", "readal">> }

Step(k, launched, exit) ==
  [fn |-> k[1], label |-> k[2], launched |-> launched, waited |-> FALSE,
   status |-> 0, exit |-> exit]

\* the last call has returned (it has not exited and, where it started a
\* process, proc.wait() is over): the caller is between two calls
Returned0 ==
  IF started = << >> THEN TRUE
  ELSE /\ started[Len(started)].exit = 0
       /\ started[Len(started)].launched => started[Len(started)].waited

\* "if lookForFile(out_file) and not replace: return False"
StepSkip ==
  /\ Returned0 /\ Len(started) < MaxSteps
  /\ \E k \in StepKinds : started' = Append(started, Step(k, FALSE, 0))
  /\ UNCHANGED << children, va, vb, vres, vop, pipevars >>

\* "proc = sp.Popen(cmd, shell = True, ...)"
StepPopen ==
  /\ Returned0 /\ Len(started) < MaxSteps
  /\ \E k \in StepKinds : started' = Append(started, Step(k, TRUE, 0))
  /\ children' = children \cup {Len(started) + 1}
  /\ UNCHANGED << va, vb, vres, vop, pipevars >>

\* "except OSError, e: ... sys.exit(exit_codes[label])"
StepOSError ==
  /\ Returned0 /\ Len(started) < MaxSteps
  /\ \E k \in StepKinds :
       started' = Append(started, Step(k, FALSE, exit_codes[k[2]]))
  /\ UNCHANGED << children, va, vb, vres, vop, pipevars >>

\* proc.wait() that goes on whatever the status is
StepWaitUnchecked ==
  /\ started # << >>
  /\ Len(started) \in children
  /\ \E st \in {0, 1} :
       started' = [started EXCEPT ![Len(started)].waited = TRUE,
                                  ![Len(started)].status = st]
  /\ children' = children \ {Len(started)}
  /\ UNCHANGED << va, vb, vres, vop, pipevars >>

\* "if proc.wait() != 0: ... sys.exit(exit_codes[label])"
StepWait ==
  /\ started # << >>
  /\ Len(started) \in children
  /\ \E st \in {0, 1} :
       started' = [started EXCEPT
                     ![Len(started)].waited = TRUE,
                     ![Len(started)].status = st,
                     ![Len(started)].exit =
                        IF st # 0 THEN exit_codes[started[Len(started)].label]
                        ELSE 0]
  /\ children' = children \ {Len(started)}
  /\ UNCHANGED << va, vb, vres, vop, pipevars >>

InitProc ==
  /\ cfg = Config(PlainInput, FALSE, <<"muscle">>, TRUE, NoTrimming)
  /\ fs = [p \in {InPath} |-> Fasta(cfg.input)]
  /\ pc = "done"
  /\ replace = FALSE /\ replace0 = FALSE
  /\ pi = 1 /\ di = 1
  /\ out_file = ""
  /\ generated_alignments = {}
  /\ in_file_param = InPath
  /\ exit_code = 0
  /\ log = << >>
  /\ run = MaxRuns
  /\ faults = 0
  /\ prev = [ended |-> "none", removed |-> FALSE, pending |-> FALSE]
  /\ cwd = current_directory
  /\ va = EmptyFile /\ vb = EmptyFile /\ vres = FALSE
  /\ vop = [op |-> "none", gaps |-> 0]
  /\ children = {} /\ started = << >>

NextProc == StepSkip \/ StepPopen \/ StepOSError \/ StepWait

SpecProc == InitProc /\ [][NextProc]_vars

\* C26: at most one child process is active, it is the child of the step
\* function called last, and when a step function is called every process
\* started before has been waited for and has ended with status zero.
StrictlySequential ==
  /\ Cardinality(children) <= 1
  /\ children \subseteq {Len(started)}
  /\ \A i \in 1..Len(started) : \A j \in 1..Len(started) :
       (i < j /\ started[i].launched) =>
          /\ i \notin children
          /\ started[i].waited
          /\ started[i].status = 0 /\ started[i].exit = 0

StrictlySequentialWitness ==
  /\ Len(started) = 3
  /\ started[1].launched /\ started[2].launched /\ started[3].launched
  /\ children = {3}

\* the calls that started a tool
Invocations == {i \in Calls : log[i].procs > 0}

Distinct(list) ==
  \A i, j \in DOMAIN list : list[i] = list[j] => i = j

\* C27 as stated: within a run no tool is started twice for one artifact.
NoRepetitionAnyList ==
  \A i, j \in Invocations :
    (log[i].label = log[j].label /\ log[i].out = log[j].out) => i = j

\* C27: under a selection list that names no aligner twice, no step starts
\* its tool twice for one artifact within a run, whatever the flag was when
\* the run started.
NoRepetition ==
  Distinct(cfg.alignment) =>
    \A i, j \in Invocations :
      (/\ log[i].fn = log[j].fn
       /\ log[i].label = log[j].label
       /\ log[i].out = log[j].out) => i = j

NoRepetitionWitness ==
  /\ pc = "done" /\ Distinct(cfg.alignment) /\ Len(cfg.alignment) = 2
  /\ cfg.both_direction /\ replace0
  /\ Cardinality({i \in Invocations : log[i].fn = "perfomAlignment"}) >= 4

RECURSIVE statsSum(_, _, _, _)
statsSum(recs, subs, i, r) ==
  IF r > Len(recs) THEN 0
  ELSE substituteSeq(recs[r].seq, subs, 1, << >>).added[i]
         + statsSum(recs, subs, i, r + 1)

stats(recs, combinations, back) ==
  LET subs == subsPairs(combinations, back)
  IN  [i \in 1..Len(subs) |-> statsSum(recs, subs, i, 1)]

\* the occurrences of a letter in the records of a file
RECURSIVE occurrences(_, _, _)
occurrences(recs, letter, r) ==
  IF r > Len(recs) THEN 0
  ELSE strCount(recs[r].seq, letter) + occurrences(recs, letter, r + 1)

\* C29: after a substitution, the count reported for each code of the table
\* is the number of occurrences of that code in the input file, all of which
\* have been replaced.
ReportCountsReplacements ==
  vop.op = "sub" =>
    LET subs == subsPairs(vop.table, FALSE)
    IN  \A i \in 1..Len(subs) :
          /\ occurrences(vb.recs, subs[i][1], 1) = 0
          /\ stats(va.recs, vop.table, FALSE)[i]
               = occurrences(va.recs, subs[i][1], 1)

\* the calls of perfomAlignment made by the loop that started the aligner
AlignerRuns ==
  { i \in Calls : /\ log[i].fn = "perfomAlignment"
                  /\ log[i].out # metalig
                  /\ log[i].procs > 0 }

TableMaps(letter) ==
  \E k \in DOMAIN cfg.in_letter : cfg.in_letter[k][1] = letter

ReportsRare(f) ==
  check_count_sequences(f).selenocys \/ check_count_sequences(f).pyrrolys

\* C30: when the inspection of the input reports a rare residue and the
\* table maps U and O, every aligner of the loop is started on a file other
\* than the input and the reversed input, and the inspection of that file
\* reports no rare residue.
SubstitutionCoversDetection ==
  (rare /\ TableMaps("U") /\ TableMaps("O")) =>
    \A i \in AlignerRuns :
      /\ log[i].inf \notin {InPath, seqsReverse}
      /\ ~ReportsRare(FileAt(fs, log[i].inf))

\* the configuration defines neither a CDS file nor residue_datatype, and
\* everything else the option checks ask for
NoDatatype == cfg.missing = {"residue_datatype"} /\ ~cfg.cds

\* C31: under a configuration that defines neither a CDS file nor
\* residue_datatype the option checks raise no error: the run never ends
\* with the status of an error raised there, before any step was called.
DatatypeOptional ==
  NoDatatype => ~(pc = "exit" /\ exit_code = 1 /\ log = << >>)

\* the path alignment() stores in generated_alignments for an aligner and a
\* direction: the re-reversed alignment, or the forward alignment (the one
\* with the rare residues put back when the input has any)
finalArtifact(p, d) ==
  IF d = "reverse" THEN reverseOut(extension(p))
  ELSE IF rare THEN alt_file(d, extension(p))
  ELSE alignOut(d, extension(p))

AlignerDirections == SupportedLabels \X {"forward", "reverse"}

\* call i wrote its destination; calls i and j are the same step; call i is
\* a format conversion of a file onto itself
Wrote(i) == log[i].ret
SameStep(i, j) ==
  /\ log[i].fn = log[j].fn
  /\ log[i].label = log[j].label
  /\ log[i].inf = log[j].inf
  /\ log[i].out = log[j].out
InPlace(i) ==
  log[i].fn = "convertInputFile_Format" /\ log[i].inf = log[i].out

\* the statement as written: no call writes to the destination of a
\* different step
NoSharedDestination ==
  \A i \in Calls : Wrote(i) =>
    \A j \in Calls : log[i].out = log[j].out => SameStep(i, j)

\* C32: two different pairs of a supported aligner and a direction have
\* different final artifacts (there are as many artifacts as pairs); when the loop over the aligners has finished,
\* generated_alignments has as many elements as there are distinct selected
\* aligners times directions; and no call writes to the destination of a
\* different step, the format conversion apart, which rewrites its input in
\* place.  The final artifacts depend on the configuration only, which no
\* step changes, so they are compared where the first run starts.
ArtifactsApart ==
  /\ (pc = "check" /\ run = 1) =>
       Cardinality({finalArtifact(pd[1], pd[2]) : pd \in AlignerDirections})
         = Cardinality(AlignerDirections)
  /\ pc = "select" =>
       Cardinality(generated_alignments)
         = Cardinality(Range(cfg.alignment)) * Len(directions)
  /\ \A i \in Calls : (Wrote(i) /\ ~InPlace(i)) =>
       \A j \in Calls : (log[i].out = log[j].out /\ ~InPlace(j)) =>
         SameStep(i, j)

ArtifactsApartWitness ==
  /\ pc = "done"
  /\ Cardinality(generated_alignments) = 4
  /\ \E i \in Calls : Wrote(i) /\ InPlace(i)
  /\ \E i \in Calls : Wrote(i) /\ log[i].fn = "perfomAlignment"

====
